---- MODULE Spec2Model ----
(***************************************************************************)
(* A model of the RSS event source plugin                                  *)
(* extensions/eda/plugins/event_source/rss.py: the field projection        *)
(* get_nested_value, the fetcher fetch_rss_feed, the per-feed poller       *)
(* poll_feed and the dispatcher main.                                      *)
(*                                                                         *)
(* asyncio runs the pollers cooperatively: a coroutine runs without        *)
(* interruption from one await to the next.  Each action below is one such *)
(* segment of poll_feed or main: from the completion of an await (the      *)
(* fetch, a queue.put, the sleep) to the next await.                       *)
(*                                                                         *)
(* Text is modelled as a sequence of one-character strings, so that the    *)
(* substring test of the search filter is computed.  A dotted path is a    *)
(* sequence of tokens: a "." or a maximal dot-free chunk.  Time stamps     *)
(* (feedparser's struct_time) are positive integers, NoTime is Python's    *)
(* None or a missing attribute.  Durations (the interval) are not          *)
(* modelled: a sleep is a suspension that ends at some later step.         *)
(***************************************************************************)
EXTENDS Integers, Sequences, FiniteSets, TLC

VARIABLES
    feed_configs,      \* args["feed_configs"]: the list of feed configurations
    most_recent_item,  \* args["most_recent_item"]
    web,               \* which documents the remote servers answer with (see Served)
    pc,                \* pc[f]: where poller f is suspended
    last_updated,      \* poll_feed's local last_updated, per poller
    first_poll,        \* poll_feed's local first_poll, per poller
    feed,              \* poll_feed's local feed (the parsed document), per poller
    idx,               \* index in feed.entries of the entry being put, per poller
    queue,             \* the shared output queue
    maxsize,           \* the number of events the queue holds before a put waits
    main_pc,           \* where main is: "gather" or "failed"
    session_open,      \* whether the aiohttp.ClientSession is still open
    begin,             \* history: last_updated and first_poll when the cycle's fetch returned
    out,               \* history: the events the current cycle has put, per poller
    result,            \* history: how the current cycle went, per poller
    gnv,               \* the argument and result of one get_nested_value call
    flt                \* the arguments and results of one run of the search test

vars == <<feed_configs, most_recent_item, web, pc, last_updated, first_poll,
          feed, idx, queue, maxsize, main_pc, session_open, begin, out, result, gnv, flt>>

(***************************************************************************)
(* Bounds of the model.                                                    *)
(***************************************************************************)
\* The longest entry list of a fetched document.
MaxEntries == 2
\* The largest maxsize of the output queue.
MaxQueue == 2

(***************************************************************************)
(* Python values.                                                          *)
(***************************************************************************)
\* None where a text (a sequence of characters) is expected.
NoStr == <<"None">>
\* None, or a missing attribute, where a time stamp is expected.
NoTime == 0
\* None where a plain name or URL is expected.
NoName == "None"

\* Values of entry fields: None, a text, or a dictionary of values.
VNone == [tag |-> "none"]
VStr(s) == [tag |-> "str", s |-> s]
VDict(d) == [tag |-> "dict", d |-> d]

(***************************************************************************)
(* Pure functions.                                                         *)
(***************************************************************************)
\* A get_nested_value that tests only for None: a value that is no
\* dictionary is handed on instead of ending the walk with None.
RECURSIVE get_nested_value_none_only(_, _)
get_nested_value_none_only(dictionary, keys) ==
    IF keys = <<>> THEN dictionary
    ELSE IF dictionary.tag = "none" THEN VNone
    ELSE get_nested_value_none_only(
             IF dictionary.tag = "dict"
             THEN (IF Head(keys) \in DOMAIN dictionary.d
                   THEN dictionary.d[Head(keys)] ELSE VNone)
             ELSE dictionary,
             Tail(keys))

\* get_nested_value: one dictionary lookup per key; None as soon as the
\* value at hand is None or no dictionary; dict.get gives None for a
\* missing key; after the last key the value at hand is returned.
RECURSIVE get_nested_value(_, _)
get_nested_value(dictionary, keys) ==
    IF keys = <<>> THEN dictionary
    ELSE IF dictionary.tag # "dict" THEN VNone
    ELSE get_nested_value(
             IF Head(keys) \in DOMAIN dictionary.d
             THEN dictionary.d[Head(keys)] ELSE VNone,
             Tail(keys))

\* str.split('.') on a tokenised path: the chunks between the dots, an
\* empty chunk where two dots meet or the path starts or ends with a dot.
RECURSIVE Split(_)
Split(path) ==
    IF path = <<>> THEN <<"">>
    ELSE IF Head(path) = "." THEN <<"">> \o Split(Tail(path))
    ELSE IF Tail(path) = <<>> THEN <<Head(path)>>
    ELSE <<Head(path)>> \o Split(Tail(Tail(path)))

\* A containment test that does not tell upper case from lower case.
Contains_ignoring_case(sub, text) ==
    LET lower(s) == [i \in 1..Len(s) |-> IF s[i] = "P" THEN "p" ELSE s[i]]
    IN \E i \in 0..(Len(text) - Len(sub)) :
           lower(SubSeq(text, i + 1, i + Len(sub))) = lower(sub)

\* Python's `sub in text` on texts: sub occurs as a contiguous run.
Contains(sub, text) ==
    \E i \in 0..(Len(text) - Len(sub)) : SubSeq(text, i + 1, i + Len(sub)) = sub

(***************************************************************************)
(* Feed configurations and what poll_feed reads from them (lines 99-104).  *)
(***************************************************************************)
\* The 'content_tags' option: missing, a dotted path, or (a misconfiguration)
\* a list, on which .split does not exist.
TagsNone == [kind |-> "none", s |-> <<>>]
TagsStr(s) == [kind |-> "str", s |-> s]
TagsList == [kind |-> "list", s |-> <<>>]

Config(url, search, content_tags, name) ==
    [url |-> url, search |-> search, content_tags |-> content_tags, name |-> name]

\* Line 100: feed_config.get('search').
search_string(cfg) == cfg.search

\* Line 102 raises AttributeError when content_tags is truthy and no string.
StartupRaises(cfg) == cfg.content_tags.kind = "list"

\* Line 102: content_tags_path.split('.') if content_tags_path else [].
content_tags_keys(cfg) ==
    IF cfg.content_tags.kind = "str" /\ cfg.content_tags.s # <<>>
    THEN Split(cfg.content_tags.s) ELSE <<>>

\* A feed_name read without the '' default.
feed_name_no_default(cfg) == cfg.name

\* Line 104: feed_config.get('name', '').
feed_name(cfg) == IF cfg.name = NoName THEN "" ELSE cfg.name

(***************************************************************************)
(* Entries, documents, events.                                             *)
(***************************************************************************)
Entry(ts, summary, tags) == [updated_parsed |-> ts, summary |-> summary, tags |-> tags]

\* The entry as the dictionary get_nested_value walks; a field the entry
\* lacks is no key of it.
EntryDict(e) ==
    VDict([k \in ((IF e.summary # NoStr THEN {"summary"} ELSE {})
                  \cup (IF e.tags.tag # "absent" THEN {"tags"} ELSE {}))
           |-> IF k = "summary" THEN VStr(e.summary) ELSE e.tags])

NoTags == [tag |-> "absent"]
News == VDict([k \in {"label"} |-> VStr(<<"n">>)])
NullLabel == VDict([k \in {"label"} |-> VNone])

\* The entries the remote feeds hold.
Entries ==
    { Entry(1, <<"p">>, News),
      Entry(2, <<"p">>, NullLabel),
      Entry(2, <<"P">>, VStr(<<"n">>)),
      Entry(NoTime, <<"p">>, NoTags),
      Entry(2, NoStr, News) }

\* Feed-level time stamps of a document; NoTime when it has none.
FeedTimes == {NoTime, 1, 2}

RECURSIVE SeqsUpTo(_, _)
SeqsUpTo(S, n) ==
    IF n = 0 THEN {<<>>}
    ELSE LET shorter == SeqsUpTo(S, n - 1)
         IN shorter \cup {Append(q, x) : q \in {r \in shorter : Len(r) = n - 1}, x \in S}

Distinct(q) == \A i, j \in 1..Len(q) : i # j => q[i] # q[j]

\* feedparser.parse's result: feed.feed.updated_parsed and feed.entries.  A
\* feed lists an item once.
Docs(n) ==
    { [updated |-> u, entries |-> es] :
        u \in FeedTimes, es \in {q \in SeqsUpTo(Entries, n) : Distinct(q)} }

NoDoc == [updated |-> NoTime, entries |-> <<>>]

\* The documents a server may answer with: entry lists up to MaxEntries
\* long, or (in the runs with two feeds) a few documents of one entry at most.
FullDocs == Docs(MaxEntries)
ShortDocs ==
    { [updated |-> u, entries |-> es] :
        u \in {NoTime, 1},
        es \in {<<>>, <<Entry(2, <<"p">>, News)>>, <<Entry(NoTime, <<"p">>, NoTags)>>} }
\* The documents of a feed that never carries a feed-level time stamp.
UnstampedDocs == {d \in FullDocs : d.updated = NoTime}
\* The documents of a feed whose time stamp stays 1 and whose entries all
\* have a summary and time stamp 2.
NewerDocs ==
    {d \in FullDocs :
        /\ d.updated = 1
        /\ \A i \in 1..Len(d.entries) :
               d.entries[i].updated_parsed = 2 /\ d.entries[i].summary # NoStr}
Served(kind) ==
    IF kind = "full" THEN FullDocs
    ELSE IF kind = "unstamped" THEN UnstampedDocs
    ELSE IF kind = "newer" THEN NewerDocs
    ELSE ShortDocs

\* A search test that lets every entry with a summary pass.
SearchTest_unfiltered(cfg, e) ==
    IF search_string(cfg) = NoStr THEN "pass"
    ELSE IF e.summary = NoStr THEN "raise"
    ELSE "pass"

\* Lines 116 and 125: search_string is None or search_string in
\* entry.summary.  entry.summary raises AttributeError when the entry has no
\* summary; the `or` does not read it when no search is configured.
SearchTest(cfg, e) ==
    IF search_string(cfg) = NoStr THEN "pass"
    ELSE IF e.summary = NoStr THEN "raise"
    ELSE IF Contains(search_string(cfg), e.summary) THEN "pass"
    ELSE "skip"

\* Line 125: entry.updated_parsed > last_updated and (the search test).  The
\* comparison raises when the entry has no time stamp to compare; the `and`
\* does not run the search test for an entry that is not newer.
NewTest(cfg, wm, e) ==
    IF e.updated_parsed = NoTime THEN "raise"
    ELSE IF e.updated_parsed > wm THEN SearchTest(cfg, e)
    ELSE "skip"

\* Lines 117-120 and 126-129: the entry as it is put on the queue.  `feed`
\* records the poller that put it; has_content_tags says whether the key
\* 'content_tags' was set.
MakeEvent(f, cfg, e) ==
    LET content_tags == IF content_tags_keys(cfg) # <<>>
                        THEN get_nested_value(EntryDict(e), content_tags_keys(cfg))
                        ELSE VNone
    IN [feed |-> f, entry |-> e,
        has_content_tags |-> content_tags # VNone,
        content_tags |-> content_tags,
        feed_name |-> feed_name(cfg)]

\* Lines 124-125: the first entry at or after index i that the loop does not
\* pass over (it is put, or its test raises); past the end when there is none.
RECURSIVE NextStop(_, _, _, _)
NextStop(entries, i, cfg, wm) ==
    IF i > Len(entries) THEN i
    ELSE IF NewTest(cfg, wm, entries[i]) = "skip" THEN NextStop(entries, i + 1, cfg, wm)
    ELSE i

(***************************************************************************)
(* The state machine.                                                      *)
(***************************************************************************)
Feeds == DOMAIN feed_configs

\* The event poller f is putting while it waits in queue.put.
Pending(f) == MakeEvent(f, feed_configs[f], feed[f].entries[idx[f]])

\* The fetch of poller f can only fail: no usable URL (session.get raises),
\* or the session is closed.
FetchCannotSucceed(f) == feed_configs[f].url = NoName \/ ~session_open

\* A cycle end that leaves last_updated as it was.
EndCycle_keeps_watermark(f, d) ==
    /\ UNCHANGED last_updated
    /\ pc' = [pc EXCEPT ![f] = "sleep"]
    /\ idx' = [idx EXCEPT ![f] = 0]
    /\ result' = [result EXCEPT ![f] = "ok"]

\* A cycle end that writes the watermark of every poller.
EndCycle_shared_watermark(f, d) ==
    /\ last_updated' = [g \in DOMAIN last_updated |-> d.updated]
    /\ pc' = [pc EXCEPT ![f] = "sleep"]
    /\ idx' = [idx EXCEPT ![f] = 0]
    /\ result' = [result EXCEPT ![f] = "ok"]

\* A cycle end that takes time 1 when the document has no feed-level time
\* stamp.
EndCycle_defaults_watermark(f, d) ==
    /\ last_updated' = [last_updated EXCEPT ![f] = IF d.updated = NoTime THEN 1 ELSE d.updated]
    /\ pc' = [pc EXCEPT ![f] = "sleep"]
    /\ idx' = [idx EXCEPT ![f] = 0]
    /\ result' = [result EXCEPT ![f] = "ok"]

\* Line 132 and the way to line 137: the cycle ends having parsed document d.
EndCycle(f, d) ==
    /\ last_updated' = [last_updated EXCEPT ![f] = d.updated]
    /\ pc' = [pc EXCEPT ![f] = "sleep"]
    /\ idx' = [idx EXCEPT ![f] = 0]
    /\ result' = [result EXCEPT ![f] = "ok"]

\* An exception that clears the watermark.
AbortCycle_clears_watermark(f) ==
    /\ pc' = [pc EXCEPT ![f] = "sleep"]
    /\ idx' = [idx EXCEPT ![f] = 0]
    /\ result' = [result EXCEPT ![f] = "raised"]
    /\ last_updated' = [last_updated EXCEPT ![f] = NoTime]

\* An exception that leaves the loop and ends the task.
AbortCycle_escapes(f) ==
    /\ pc' = [pc EXCEPT ![f] = "raised"]
    /\ idx' = [idx EXCEPT ![f] = 0]
    /\ result' = [result EXCEPT ![f] = "raised"]
    /\ UNCHANGED last_updated

\* Lines 135-136: an exception ends the cycle; it is logged.
AbortCycle(f) ==
    /\ pc' = [pc EXCEPT ![f] = "sleep"]
    /\ idx' = [idx EXCEPT ![f] = 0]
    /\ result' = [result EXCEPT ![f] = "raised"]
    /\ UNCHANGED last_updated

\* Lines 124-132: the for loop from entry i of document d on, to its next
\* await or to the end of the cycle.
Resume(f, d, i) ==
    LET cfg == feed_configs[f]
        j == NextStop(d.entries, i, cfg, last_updated[f])
    IN IF j > Len(d.entries) THEN EndCycle(f, d)
       ELSE IF NewTest(cfg, last_updated[f], d.entries[j]) = "raise" THEN AbortCycle(f)
       ELSE /\ pc' = [pc EXCEPT ![f] = "put_new"]
            /\ idx' = [idx EXCEPT ![f] = j]
            /\ result' = [result EXCEPT ![f] = "running"]
            /\ UNCHANGED last_updated

\* Lines 99-106: the poller starts; a content_tags that is no string raises
\* out of poll_feed, which ends the task.
Start(f) ==
    /\ pc[f] = "init"
    /\ IF StartupRaises(feed_configs[f])
       THEN pc' = [pc EXCEPT ![f] = "raised"]
       ELSE pc' = [pc EXCEPT ![f] = "fetch"]
    /\ last_updated' = [last_updated EXCEPT ![f] = NoTime]
    /\ first_poll' = [first_poll EXCEPT ![f] = TRUE]
    /\ UNCHANGED <<feed_configs, most_recent_item, web, feed, idx, queue,
                   maxsize, main_pc, session_open, begin, out, result, gnv, flt>>

\* A failed fetch that resets the watermark.
FetchFailed_resets_watermark(f) ==
    /\ pc[f] = "fetch"
    /\ pc' = [pc EXCEPT ![f] = "sleep"]
    /\ begin' = [begin EXCEPT ![f] = [last_updated |-> last_updated[f],
                                      first_poll |-> first_poll[f]]]
    /\ result' = [result EXCEPT ![f] = "failed"]
    /\ last_updated' = [last_updated EXCEPT ![f] = NoTime]
    /\ UNCHANGED <<feed_configs, most_recent_item, web, first_poll,
                   feed, idx, queue, maxsize, main_pc, session_open, out, gnv, flt>>

\* A failed fetch that closes the session the pollers share.
FetchFailed_closes_session(f) ==
    /\ pc[f] = "fetch"
    /\ pc' = [pc EXCEPT ![f] = "sleep"]
    /\ begin' = [begin EXCEPT ![f] = [last_updated |-> last_updated[f],
                                      first_poll |-> first_poll[f]]]
    /\ result' = [result EXCEPT ![f] = "failed"]
    /\ session_open' = FALSE
    /\ UNCHANGED <<feed_configs, most_recent_item, web, last_updated, first_poll,
                   feed, idx, queue, maxsize, main_pc, out, gnv, flt>>

\* Lines 86-96, 110-111, 133-134: the fetch gives "" (a status other than
\* 200, an exception, an empty body); the cycle does nothing.
FetchFailed(f) ==
    /\ pc[f] = "fetch"
    /\ pc' = [pc EXCEPT ![f] = "sleep"]
    /\ begin' = [begin EXCEPT ![f] = [last_updated |-> last_updated[f],
                                      first_poll |-> first_poll[f]]]
    /\ result' = [result EXCEPT ![f] = "failed"]
    /\ UNCHANGED <<feed_configs, most_recent_item, web, last_updated, first_poll,
                   feed, idx, queue, maxsize, main_pc, session_open, out, gnv, flt>>

\* Lines 110-132: the fetch gives a body that parses to document d; the
\* poller runs to its first queue.put or to the end of the cycle.
FetchDone(f, d) ==
    /\ pc[f] = "fetch"
    /\ ~FetchCannotSucceed(f)
    /\ feed' = [feed EXCEPT ![f] = d]
    /\ begin' = [begin EXCEPT ![f] = [last_updated |-> last_updated[f],
                                      first_poll |-> first_poll[f]]]
    /\ IF first_poll[f] /\ most_recent_item /\ d.entries # <<>>
       THEN CASE SearchTest(feed_configs[f], d.entries[1]) = "raise" ->
                     AbortCycle(f) /\ UNCHANGED first_poll
              [] SearchTest(feed_configs[f], d.entries[1]) = "pass" ->
                     /\ pc' = [pc EXCEPT ![f] = "put_first"]
                     /\ idx' = [idx EXCEPT ![f] = 1]
                     /\ result' = [result EXCEPT ![f] = "running"]
                     /\ UNCHANGED <<last_updated, first_poll>>
              [] OTHER ->
                     /\ first_poll' = [first_poll EXCEPT ![f] = FALSE]
                     /\ EndCycle(f, d)
       ELSE IF last_updated[f] # NoTime
            THEN Resume(f, d, 1) /\ UNCHANGED first_poll
            ELSE EndCycle(f, d) /\ UNCHANGED first_poll
    /\ UNCHANGED <<feed_configs, most_recent_item, web, queue, maxsize, main_pc,
                   session_open, out, gnv, flt>>

\* A put that places the event before the events already on the queue.
PutDone_at_head(f) ==
    /\ pc[f] \in {"put_first", "put_new"}
    /\ Len(queue) < maxsize
    /\ queue' = <<Pending(f)>> \o queue
    /\ out' = [out EXCEPT ![f] = Append(@, Pending(f))]
    /\ IF pc[f] = "put_first"
       THEN /\ first_poll' = [first_poll EXCEPT ![f] = FALSE]
            /\ EndCycle(f, feed[f])
       ELSE Resume(f, feed[f], idx[f] + 1) /\ UNCHANGED first_poll
    /\ UNCHANGED <<feed_configs, most_recent_item, web, feed, maxsize, main_pc,
                   session_open, begin, gnv, flt>>

\* Lines 121-122 and 130: a queue.put returns, the event is on the queue;
\* the poller runs to its next queue.put or to the end of the cycle.
PutDone(f) ==
    /\ pc[f] \in {"put_first", "put_new"}
    /\ Len(queue) < maxsize
    /\ queue' = Append(queue, Pending(f))
    /\ out' = [out EXCEPT ![f] = Append(@, Pending(f))]
    /\ IF pc[f] = "put_first"
       THEN /\ first_poll' = [first_poll EXCEPT ![f] = FALSE]
            /\ EndCycle(f, feed[f])
       ELSE Resume(f, feed[f], idx[f] + 1) /\ UNCHANGED first_poll
    /\ UNCHANGED <<feed_configs, most_recent_item, web, feed, maxsize, main_pc,
                   session_open, begin, gnv, flt>>

\* Lines 137 and 108-110: the sleep is over, the next cycle's fetch begins.
SleepDone(f) ==
    /\ pc[f] = "sleep"
    /\ pc' = [pc EXCEPT ![f] = "fetch"]
    /\ feed' = [feed EXCEPT ![f] = NoDoc]
    /\ out' = [out EXCEPT ![f] = <<>>]
    /\ result' = [result EXCEPT ![f] = "none"]
    /\ begin' = [begin EXCEPT ![f] = [last_updated |-> last_updated[f],
                                      first_poll |-> first_poll[f]]]
    /\ UNCHANGED <<feed_configs, most_recent_item, web, last_updated, first_poll,
                   idx, queue, maxsize, main_pc, session_open, gnv, flt>>

\* Line 146: asyncio.gather hands the first exception of a poller to main,
\* which leaves the `async with` of line 144 (closing the session) and ends
\* with that exception.  The pollers were all started before main resumes.
GatherRaises ==
    /\ main_pc = "gather"
    /\ \E f \in Feeds : pc[f] = "raised"
    /\ \A f \in Feeds : pc[f] # "init"
    /\ main_pc' = "failed"
    /\ session_open' = FALSE
    /\ UNCHANGED <<feed_configs, most_recent_item, web, pc, last_updated, first_poll,
                   feed, idx, queue, maxsize, begin, out, result, gnv, flt>>

\* The host takes the oldest event off the queue.
Consume ==
    /\ queue # <<>>
    /\ queue' = Tail(queue)
    /\ UNCHANGED <<feed_configs, most_recent_item, web, pc, last_updated, first_poll,
                   feed, idx, maxsize, main_pc, session_open, begin, out, result, gnv, flt>>

\* The feed configurations of the runs.
Searches == {NoStr, <<"p">>}
TagPaths == {TagsNone, TagsStr(<<>>), TagsStr(<<"tags">>),
             TagsStr(<<"tags", ".", "label">>)}
Configs ==
    { Config("http://feed", s, t, IF s = NoStr THEN NoName ELSE "blog") :
        s \in Searches, t \in TagPaths }
    \cup { Config(NoName, NoStr, TagsNone, "blog"),
           Config("http://feed", NoStr, TagsList, NoName) }

InitWith(configs, docs, size) ==
    /\ feed_configs = configs
    /\ maxsize = size
    /\ most_recent_item \in BOOLEAN
    /\ web = docs
    /\ pc = [f \in DOMAIN configs |-> "init"]
    /\ last_updated = [f \in DOMAIN configs |-> NoTime]
    /\ first_poll = [f \in DOMAIN configs |-> TRUE]
    /\ feed = [f \in DOMAIN configs |-> NoDoc]
    /\ idx = [f \in DOMAIN configs |-> 0]
    /\ queue = <<>>
    /\ main_pc = "gather"
    /\ session_open = TRUE
    /\ begin = [f \in DOMAIN configs |-> [last_updated |-> NoTime, first_poll |-> TRUE]]
    /\ out = [f \in DOMAIN configs |-> <<>>]
    /\ result = [f \in DOMAIN configs |-> "none"]

\* No call of get_nested_value is being looked at.
NoCall == [dictionary |-> VNone, keys |-> <<>>, called |-> FALSE, result |-> VNone]

\* No run of the search test is being looked at.
NoTest == [search |-> NoStr, summary |-> NoStr, called |-> FALSE,
           first |-> "skip", new |-> "skip"]

\* main with one feed configured.
Init == gnv = NoCall /\ flt = NoTest /\ \E c \in Configs : InitWith(<<c>>, "full", MaxQueue)

Next ==
    \/ \E f \in Feeds : Start(f)
    \/ \E f \in Feeds : FetchFailed(f)
    \/ \E f \in Feeds : \E d \in Served(web) : FetchDone(f, d)
    \/ \E f \in Feeds : PutDone(f)
    \/ \E f \in Feeds : SleepDone(f)
    \/ GatherRaises
    \/ Consume

Spec == Init /\ [][Next]_vars

(***************************************************************************)
(* main with one feed configured whose documents never carry a feed-level  *)
(* time stamp.                                                             *)
(***************************************************************************)
InitUnstamped == gnv = NoCall /\ flt = NoTest /\ \E c \in Configs : InitWith(<<c>>, "unstamped", MaxQueue)

SpecUnstamped == InitUnstamped /\ [][Next]_vars

(***************************************************************************)
(* main with two feeds configured, the servers answering with short        *)
(* documents.                                                              *)
(***************************************************************************)
PairFeeds == {1, 2}

PairConfigs ==
    { Config("http://feed", <<"p">>, TagsStr(<<"tags", ".", "label">>), "blog"),
      Config(NoName, NoStr, TagsNone, "blog"),
      Config("http://feed", NoStr, TagsList, NoName) }

InitPair ==
    gnv = NoCall /\ flt = NoTest /\ \E c1, c2 \in PairConfigs : InitWith(<<c1, c2>>, "short", 1)

SpecPair == InitPair /\ [][Next]_vars

\* One step of poller f.
PollerStep(f) ==
    \/ Start(f)
    \/ FetchFailed(f)
    \/ \E d \in Served(web) : FetchDone(f, d)
    \/ PutDone(f)
    \/ SleepDone(f)

\* The event loop runs every task that can run: a fetch returns (aiohttp
\* gives up after its timeout), a sleep ends, main resumes when gather has
\* an exception for it; the host keeps taking events off the queue.
SpecPairFair ==
    /\ SpecPair
    /\ \A f \in PairFeeds : WF_vars(PollerStep(f))
    /\ WF_vars(GatherRaises)
    /\ WF_vars(Consume)

(***************************************************************************)
(* main with two feeds configured, the servers answering with documents    *)
(* whose entries are all newer than the watermark, the queue holding       *)
(* MaxQueue events.                                                        *)
(***************************************************************************)
NewerConfigs ==
    { Config("http://feed", NoStr, TagsNone, "blog"),
      Config("http://feed", NoStr, TagsList, NoName) }

InitNewer ==
    gnv = NoCall /\ flt = NoTest
        /\ \E c1, c2 \in NewerConfigs : InitWith(<<c1, c2>>, "newer", MaxQueue)

SpecNewer == InitNewer /\ [][Next]_vars

(***************************************************************************)
(* get_nested_value alone: one call on a value of nesting depth two at     *)
(* most and a list of keys.                                                *)
(***************************************************************************)
\* The longest list of keys.
MaxKeys == 3

KeyNames == {"tags", "label"}
Leaves == {VNone, VStr(<<"n">>)}
DictsOver(V) == { VDict(d) : d \in UNION { [S -> V] : S \in SUBSET KeyNames } }
Inner == Leaves \cup DictsOver(Leaves)
ProjValues == Leaves \cup DictsOver(Inner)
ProjKeys == SeqsUpTo(KeyNames, MaxKeys)

InitProject ==
    /\ InitWith(<<>>, "short", 1)
    /\ flt = NoTest
    /\ \E v \in ProjValues, k \in ProjKeys :
           gnv = [dictionary |-> v, keys |-> k, called |-> FALSE, result |-> VNone]

Project ==
    /\ ~gnv.called
    /\ gnv' = [gnv EXCEPT !.called = TRUE,
                          !.result = get_nested_value(gnv.dictionary, gnv.keys)]
    /\ UNCHANGED <<feed_configs, most_recent_item, web, pc, last_updated, first_poll,
                   feed, idx, queue, maxsize, main_pc, session_open, begin, out, result, flt>>

NextProject == Project

SpecProject == InitProject /\ [][NextProject]_vars

(***************************************************************************)
(* The search test alone: one entry that is newer than the watermark, run  *)
(* through the test of line 116 and through the test of line 125.          *)
(***************************************************************************)
\* The longest search text; a summary is up to one character longer.
MaxText == 2

Letters == {"p", "P"}
SearchTexts == {NoStr} \cup SeqsUpTo(Letters, MaxText)
Summaries == {NoStr} \cup SeqsUpTo(Letters, MaxText + 1)

InitTest ==
    /\ InitWith(<<>>, "short", 1)
    /\ gnv = NoCall
    /\ \E s \in SearchTexts, t \in Summaries :
           flt = [search |-> s, summary |-> t, called |-> FALSE,
                  first |-> "skip", new |-> "skip"]

Test ==
    /\ ~flt.called
    /\ LET cfg == Config("http://feed", flt.search, TagsNone, NoName)
           e == Entry(2, flt.summary, NoTags)
       IN flt' = [flt EXCEPT !.called = TRUE,
                             !.first = SearchTest(cfg, e),
                             !.new = NewTest(cfg, 1, e)]
    /\ UNCHANGED <<feed_configs, most_recent_item, web, pc, last_updated, first_poll,
                   feed, idx, queue, maxsize, main_pc, session_open, begin, out, result, gnv>>

NextTest == Test

SpecTest == InitTest /\ [][NextTest]_vars

(***************************************************************************)
(* What the claims speak of.                                               *)
(***************************************************************************)
\* The search filter: no search configured, or the search text occurs in
\* the entry's summary.
PassesFilter(cfg, e) ==
    cfg.search = NoStr \/ (e.summary # NoStr /\ Contains(cfg.search, e.summary))

\* The entry's time stamp is strictly greater than the watermark wm.
IsNewer(e, wm) == e.updated_parsed # NoTime /\ e.updated_parsed > wm

\* The entries of the events in q, in order.
EntriesOf(q) == [i \in 1..Len(q) |-> q[i].entry]

RECURSIVE Filter(_, _, _)
Filter(entries, cfg, wm) ==
    IF entries = <<>> THEN <<>>
    ELSE (IF IsNewer(Head(entries), wm) /\ PassesFilter(cfg, Head(entries))
          THEN <<Head(entries)>> ELSE <<>>) \o Filter(Tail(entries), cfg, wm)

\* Poller f has finished a cycle whose fetch gave a document.
CycleDone(f) == pc[f] = "sleep" /\ result[f] \in {"ok", "raised"}

\* C1: in a finished cycle whose fetch gave a document while the watermark
\* was set, the entries put are exactly the document's entries that are
\* newer than the watermark and pass the search filter, in order.
C1_ExactlyTheNew ==
    \A f \in Feeds :
        (CycleDone(f) /\ begin[f].last_updated # NoTime)
            => EntriesOf(out[f]) = Filter(feed[f].entries, feed_configs[f],
                                          begin[f].last_updated)

\* C2: no entry is put on the queue twice by the same poller: the events
\* on the queue are pairwise different (a document lists an entry once, so
\* two equal events of one poller come from two cycles).
C2_NoDuplicates ==
    \A i, j \in 1..Len(queue) : i # j => queue[i] # queue[j]

\* The cold-start branch of lines 114-122 ran in poller f's current cycle.
TookColdStart(f) ==
    begin[f].first_poll /\ most_recent_item /\ feed[f].entries # <<>>

\* C3: with most_recent_item false, a poll made while there is no watermark
\* puts no event and changes nothing but the watermark, which a fetched
\* document sets to its feed-level time stamp.
C3_FirstPollOnlySetsWatermark ==
    \A f \in Feeds :
        (~most_recent_item /\ result[f] # "none" /\ begin[f].last_updated = NoTime)
            => /\ pc[f] = "sleep"
               /\ out[f] = <<>>
               /\ first_poll[f] = begin[f].first_poll
               /\ result[f] \in {"ok", "failed"}
               /\ result[f] = "ok" => last_updated[f] = feed[f].updated
               /\ result[f] = "failed" => last_updated[f] = NoTime

C3_Witness ==
    \E f \in Feeds :
        /\ ~most_recent_item /\ result[f] = "ok" /\ begin[f].last_updated = NoTime
        /\ Len(feed[f].entries) = 2 /\ last_updated[f] = 2
        /\ PassesFilter(feed_configs[f], feed[f].entries[1])

\* C4: with most_recent_item true, a poll made while first_poll is still
\* set (the first poll is one) whose document has an entry puts exactly the
\* entry at index 0 when that entry passes the search filter, and nothing
\* when it does not.
C4_FirstPollPutsNewest ==
    \A f \in Feeds :
        (most_recent_item /\ CycleDone(f) /\ begin[f].first_poll
         /\ feed[f].entries # <<>>)
            => EntriesOf(out[f]) =
                   IF PassesFilter(feed_configs[f], feed[f].entries[1])
                   THEN <<feed[f].entries[1]>> ELSE <<>>

C4_Witness ==
    \E f \in Feeds :
        /\ most_recent_item /\ CycleDone(f) /\ begin[f].first_poll
        /\ begin[f].last_updated = NoTime
        /\ Len(feed[f].entries) = 2
        /\ PassesFilter(feed_configs[f], feed[f].entries[2])
        /\ Len(out[f]) = 1

C4_WitnessFiltered ==
    \E f \in Feeds :
        /\ most_recent_item /\ CycleDone(f) /\ begin[f].first_poll
        /\ feed[f].entries # <<>>
        /\ ~PassesFilter(feed_configs[f], feed[f].entries[1])
        /\ out[f] = <<>>

\* C5: a failed fetch leaves the watermark as it was, and it stays so until
\* the next cycle's fetch begins: the step in which the fetch fails and
\* every step taken while the cycle is a failed one keep last_updated.
C5_FailureKeepsWatermark ==
    [][\A f \in Feeds :
          (result'[f] = "failed" \/ result[f] = "failed")
              => last_updated'[f] = last_updated[f]]_vars

C5_Witness ==
    \E f \in Feeds : result[f] = "failed" /\ last_updated[f] = 2 /\ pc[f] = "sleep"

\* C8: in a finished cycle whose fetch gave a document while the watermark
\* was set, every entry of the document that is newer than the watermark
\* and passes the search filter has been put.
C8_NothingLost ==
    \A f \in Feeds :
        (CycleDone(f) /\ begin[f].last_updated # NoTime)
            => \A i \in 1..Len(feed[f].entries) :
                   (IsNewer(feed[f].entries[i], begin[f].last_updated)
                    /\ PassesFilter(feed_configs[f], feed[f].entries[i]))
                       => \E k \in 1..Len(out[f]) : out[f][k].entry = feed[f].entries[i]

\* A non-empty content_tags path is configured.
PathConfigured(cfg) == cfg.content_tags.kind = "str" /\ cfg.content_tags.s # <<>>

\* One dictionary lookup: None when v is no dictionary or lacks the key.
Lookup(v, k) == IF v.tag = "dict" /\ k \in DOMAIN v.d THEN v.d[k] ELSE VNone

\* The value the successive lookups of keys reach from v.
RECURSIVE Reached(_, _)
Reached(v, keys) ==
    IF keys = <<>> THEN v ELSE Reached(Lookup(v, Head(keys)), Tail(keys))

\* C9: every event on the queue carries the configured name of the feed
\* that put it ("" when none is configured), and has content_tags exactly
\* when a path is configured and its projection on the entry is not None;
\* content_tags is then that projection.
C9_InjectedFields ==
    \A i \in 1..Len(queue) :
        LET ev == queue[i]
            cfg == feed_configs[ev.feed]
            projected == Reached(EntryDict(ev.entry), Split(cfg.content_tags.s))
        IN /\ ev.feed_name = (IF cfg.name = NoName THEN "" ELSE cfg.name)
           /\ ev.has_content_tags <=> (PathConfigured(cfg) /\ projected # VNone)
           /\ ev.has_content_tags => ev.content_tags = projected

C9_Witness ==
    \E i \in 1..Len(queue) :
        /\ queue[i].has_content_tags
        /\ queue[i].content_tags = VStr(<<"n">>)
        /\ queue[i].feed_name = "blog"

C9_WitnessNull ==
    \E i \in 1..Len(queue) :
        /\ ~queue[i].has_content_tags
        /\ feed_configs[queue[i].feed].content_tags = TagsStr(<<"tags", ".", "label">>)
        /\ queue[i].entry.tags = NullLabel

\* C6: with two pollers started, if every fetch of feed a fails for ever,
\* poller b keeps cycling (it is again and again fetching and again and
\* again sleeping), a put it waits in is completed, and its fetch stays able
\* to succeed when its URL is usable.
C6_HealthyFeedKeepsEmitting ==
    \A a, b \in PairFeeds :
        (a # b) =>
            (([](pc[a] # "raised" /\ pc[b] # "raised"
                 /\ result[a] \in {"none", "failed"}))
             => /\ []<>(pc[b] = "fetch")
                /\ []<>(pc[b] = "sleep")
                /\ \A n \in 0..(MaxEntries - 1) :
                       [](  (pc[b] \in {"put_first", "put_new"} /\ Len(out[b]) = n)
                         => <>(Len(out[b]) = n + 1))
                /\ []((pc[b] = "fetch" /\ feed_configs[b].url # NoName)
                         => ~FetchCannotSucceed(b)))

C6_Witness ==
    \E a, b \in PairFeeds :
        /\ a # b
        /\ feed_configs[a].url = NoName /\ result[a] = "failed"
        /\ pc[b] = "sleep" /\ Len(out[b]) = 1 /\ last_updated[b] # NoTime

\* C7: when a poller's task has ended with an exception, main has not
\* ended and the session the other pollers fetch with is still open.
C7_OnlyThatPollerEnds ==
    (\E f \in Feeds : pc[f] = "raised") => (main_pc = "gather" /\ session_open)

\* The value after the first n lookups is a dictionary that has the next key.
StepFound(v, keys, n) ==
    LET at == Reached(v, SubSeq(keys, 1, n))
    IN at.tag = "dict" /\ keys[n + 1] \in DOMAIN at.d

\* C10 as stated: the call returns a value; None for an empty key list, for
\* a missing key and for an intermediate value that is None or no
\* dictionary; otherwise the value the successive lookups reach.
C10_AsStated ==
    gnv.called =>
        /\ gnv.result \in ProjValues
        /\ IF gnv.keys = <<>> THEN gnv.result = VNone
           ELSE IF \E n \in 0..(Len(gnv.keys) - 1) : ~StepFound(gnv.dictionary, gnv.keys, n)
                THEN gnv.result = VNone
                ELSE gnv.result = Reached(gnv.dictionary, gnv.keys)

\* C10, amended: as stated, but for an empty key list the call returns its
\* first argument itself.
C10_Projection ==
    gnv.called =>
        /\ gnv.result \in ProjValues
        /\ IF gnv.keys = <<>> THEN gnv.result = gnv.dictionary
           ELSE IF \E n \in 0..(Len(gnv.keys) - 1) : ~StepFound(gnv.dictionary, gnv.keys, n)
                THEN gnv.result = VNone
                ELSE gnv.result = Reached(gnv.dictionary, gnv.keys)

C10_Witness ==
    /\ gnv.called
    /\ gnv.keys = <<"tags", "label">>
    /\ gnv.dictionary = VDict([k \in {"tags"} |-> News])
    /\ gnv.result = VStr(<<"n">>)

C10_WitnessEmpty ==
    gnv.called /\ gnv.keys = <<>> /\ gnv.dictionary = News /\ gnv.result = News

\* C11: once a poll has set the watermark, no step resets it to unset, and
\* a step changes it only to the feed-level time stamp of the document the
\* poller has parsed.
C11_WatermarkNeverReset ==
    [][\A f \in Feeds :
          last_updated[f] # NoTime
              => /\ last_updated'[f] # NoTime
                 /\ last_updated'[f] # last_updated[f]
                        => last_updated'[f] = feed'[f].updated]_vars

\* C12: with most_recent_item true, a cycle that fetched and processed a
\* document without raising leaves the poller out of cold start, whether
\* or not the document had entries.
C12_ColdStartConsumedOnce ==
    \A f \in Feeds :
        (most_recent_item /\ pc[f] = "sleep" /\ result[f] = "ok") => ~first_poll[f]

\* Poller f has finished a cycle that ran the watermark rule (lines
\* 123-130) and in which nothing but a missing time stamp could raise.
SteadyCycleDone(f) ==
    /\ CycleDone(f)
    /\ begin[f].last_updated # NoTime
    /\ ~TookColdStart(f)
    /\ \A i \in 1..Len(feed[f].entries) :
           feed_configs[f].search = NoStr \/ feed[f].entries[i].summary # NoStr

\* C13: in such a cycle whose document has an entry without a time stamp,
\* every entry that is newer than the watermark and passes the search
\* filter has been put, and the watermark is the document's feed-level
\* time stamp.
C13_UntimedEntrySkipped ==
    \A f \in Feeds :
        (SteadyCycleDone(f)
         /\ \E i \in 1..Len(feed[f].entries) : feed[f].entries[i].updated_parsed = NoTime)
            => /\ EntriesOf(out[f]) = Filter(feed[f].entries, feed_configs[f],
                                             begin[f].last_updated)
               /\ last_updated[f] = feed[f].updated

\* q is p with elements added at its end.
IsPrefix(p, q) == Len(p) <= Len(q) /\ SubSeq(q, 1, Len(p)) = p

\* C18: a cycle ended by the caught exception leaves the watermark and the
\* cold-start flag as they were when the cycle began, and the step that
\* ends it takes nothing off the queue: the events the cycle has put stay.
C18_AbortKeepsState ==
    [][\A f \in Feeds :
          result'[f] = "raised"
              => /\ last_updated'[f] = begin'[f].last_updated
                 /\ first_poll'[f] = begin'[f].first_poll
                 /\ IsPrefix(out[f], out'[f])
                 /\ result[f] # "raised" => IsPrefix(queue, queue')]_vars

C18_Witness ==
    \E f \in Feeds :
        /\ result[f] = "raised" /\ pc[f] = "sleep"
        /\ begin[f].last_updated = 1 /\ last_updated[f] = 1
        /\ Len(out[f]) = 1

\* C14: a poller that has entered its loop never leaves it: a cycle that
\* has ended (normally, on a failed fetch or on a caught exception) is in
\* the sleep of line 137, and the next fetch comes.
C14_LoopNeverEnds ==
    \A f \in PairFeeds :
        /\ [](result[f] \in {"ok", "failed", "raised"} => pc[f] = "sleep")
        /\ (result[f] \in {"ok", "failed", "raised"}) ~> (pc[f] = "fetch")

C14_Witness ==
    \E f \in PairFeeds :
        pc[f] = "sleep" /\ result[f] = "raised" /\ last_updated[f] # NoTime

\* C17: a step of poller a leaves the watermark, the cold-start flag, the
\* parsed document and the position of every other poller b unchanged.
C17_PollersShareOnlyQueue ==
    [][\A a, b \in PairFeeds :
          (a # b /\ (pc'[a] # pc[a] \/ out'[a] # out[a]))
              => /\ last_updated'[b] = last_updated[b]
                 /\ first_poll'[b] = first_poll[b]
                 /\ feed'[b] = feed[b]
                 /\ idx'[b] = idx[b]
                 /\ pc'[b] = pc[b]]_vars

C17_Witness ==
    \E a, b \in PairFeeds :
        /\ a # b
        /\ last_updated[a] # NoTime /\ result[a] = "ok"
        /\ last_updated[b] = NoTime /\ result[b] = "ok"

\* C19: a feed whose documents never carry a feed-level time stamp never
\* gets a watermark; an event is put only by the step that ends the cold
\* start, which needs most_recent_item, and the cold start once ended does
\* not come back: so no event at all without most_recent_item, and one
\* event at most with it (the queue never holds two).
C19_UnstampedFeedStaysSilent ==
    [][\A f \in Feeds :
          /\ last_updated'[f] = NoTime
          /\ Len(queue') > Len(queue)
                 => most_recent_item /\ first_poll[f] /\ ~first_poll'[f]
          /\ ~first_poll[f] => ~first_poll'[f]
          /\ Len(queue') <= 1
          /\ ~most_recent_item => (queue' = <<>> /\ out'[f] = <<>>)]_vars

C19_Witness ==
    \E f \in Feeds :
        /\ web = "unstamped" /\ most_recent_item
        /\ ~first_poll[f] /\ last_updated[f] = NoTime
        /\ pc[f] = "sleep" /\ result[f] = "ok"
        /\ Len(feed[f].entries) = 2 /\ Len(out[f]) = 1
        /\ feed[f].entries[2].updated_parsed = 2

\* The text sub occurs in text: text is some text, then sub character for
\* character, then some text.
Occurs(sub, text) ==
    \E a, b \in SeqsUpTo(Letters, MaxText + 1) : text = a \o sub \o b

\* C16: the search test lets an entry pass exactly when no search is
\* configured or the search text occurs, character for character, in the
\* entry's summary; the test of the first poll (line 116) and the test of
\* the later polls (line 125, on a newer entry) give the same answer.
C16_SearchFilter ==
    flt.called =>
        /\ flt.first = "pass"
               <=> (flt.search = NoStr
                    \/ (flt.summary # NoStr /\ Occurs(flt.search, flt.summary)))
        /\ flt.new = flt.first

C16_Witness ==
    /\ flt.called
    /\ flt.search = <<"p", "P">> /\ flt.summary = <<"P", "p", "P">>
    /\ flt.first = "pass" /\ flt.new = "pass"

C16_WitnessCase ==
    /\ flt.called
    /\ flt.search = <<"p">> /\ flt.summary = <<"P", "P">>
    /\ flt.first = "skip" /\ flt.new = "skip"

\* The events of poller f on the queue, oldest first.
QueueOf(f) == SelectSeq(queue, LAMBDA ev : ev.feed = f)

\* The last k elements of q.
Last(q, k) == SubSeq(q, Len(q) - k + 1, Len(q))

\* The place of entry e in the entry list.
Place(e, entries) == CHOOSE i \in 1..Len(entries) : entries[i] = e

\* The events poller f has put in its current cycle are entries of its
\* document, put in the order the document lists them.
CycleInEntryOrder(f) ==
    /\ \A i \in 1..Len(out[f]) :
           \E k \in 1..Len(feed[f].entries) : feed[f].entries[k] = out[f][i].entry
    /\ \A i, j \in 1..Len(out[f]) :
           i < j => Place(out[f][i].entry, feed[f].entries)
                        < Place(out[f][j].entry, feed[f].entries)

\* On the queue the events of f's current cycle come last among f's
\* events, in the order they were put: those not yet taken off are the
\* last k the cycle has put, and when an event of an earlier cycle is still
\* on the queue none of the current cycle has been taken off.
CycleAfterEarlier(f) ==
    \E k \in 0..Len(out[f]) :
        /\ k <= Len(QueueOf(f))
        /\ Last(QueueOf(f), k) = Last(out[f], k)
        /\ Len(QueueOf(f)) > k => k = Len(out[f])

\* C15: with two pollers in any interleaving, after every step the events
\* of a poller's current cycle are in the parser's entry order and come
\* after the events of its earlier cycles on the queue, and a step changes
\* the queue only by taking its oldest event off or by adding the event a
\* poller is putting at its end.
C15_FeedOrderOnQueue ==
    [][/\ \A f \in PairFeeds : CycleInEntryOrder(f)' /\ CycleAfterEarlier(f)'
       /\ \/ queue' = queue
          \/ queue # <<>> /\ queue' = Tail(queue)
          \/ \E f \in PairFeeds :
                 pc[f] \in {"put_first", "put_new"} /\ queue' = Append(queue, Pending(f))]_vars

C15_Witness ==
    \E f, g \in PairFeeds :
        /\ f # g /\ web = "newer"
        /\ Len(queue) = 2 /\ queue[1].feed = g /\ queue[2].feed = f
        /\ Len(out[f]) = 2 /\ Len(out[g]) = 1 /\ pc[g] = "put_new"
        /\ last_updated[f] = 1 /\ begin[f].last_updated = 1

====
